---- MODULE Spec2Model ----
(***************************************************************************)
(* A model of acpied's terminal front end (src/src/term.rs): the           *)
(* selection lists, the modal key loop of start(), the editing commands of *)
(* AcpiEditor, the dirty tracking of AcpiEditor::write, the operation log  *)
(* and AcpiEditor::apply.                                                  *)
(*                                                                         *)
(* Text is a sequence of one-character strings; a TextArea is a record of  *)
(* its lines, its cursor <<row, col>> (0-based, as in the code) and its    *)
(* undo history.  Option<usize> is <<>> (None) or <<i>> (Some(i)).         *)
(* Files are byte sequences; "\n" is the newline byte.                     *)
(***************************************************************************)
EXTENDS Integers, Sequences, FiniteSets, TLC

\* ---------------------------------------------------------------- bounds
\* The longest buffer (in lines) and line (in characters) the model edits.
MaxLines == 2
MaxCols == 2
\* The most edits kept in one TextArea's undo history in the model.
MaxEdits == 2
\* The most entries the model appends to the operation log in the editor runs.
MaxLog == 2
\* file_diff::diff_files reads both files through 1024-byte buffers; the model's
\* files are a few bytes long, so the buffer is scaled down with them.
BuffSize == 2
\* The longest pattern (in characters, the '/' marker included) typed in Search mode.
MaxPattern == 2
\* The longest selection list and navigation sequence of the list runs.
MaxItems == 5
MaxNav == 6
\* The most appends of the log runs.
MaxAppends == 102
\* The most document selections of the switching runs.
MaxSwitches == 3
\* usize has 64 bits on the machines acpied runs on; the model computes with
\* UsizeBits bits, which the checker's integers hold.  Only the wrap of 0 - 1
\* to the largest value matters.
UsizeBits == 16

\* ------------------------------------------------------ program constants
MAX_HISTORY_SIZE == 100

None == <<>>
Some(i) == <<i>>
NL == "\n"

Min(a, b) == IF a < b THEN a ELSE b

\* files.items after AcpiEditor::new: the directory's names, sorted.
FileNames == <<"A", "B">>

\* String order on the names the model uses (Vec<String>::sort, binary_search).
NameRank(n) == CHOOSE i \in 1..Len(FileNames) : FileNames[i] = n
NameLess(a, b) == NameRank(a) < NameRank(b)

VARIABLES
    files,          \* StatefulList<String>: [items, selected]
    modified,       \* StatefulList<String>: [items, selected]
    content,        \* TextArea: [lines, cursor, history, search]
    last_char,      \* chord memory
    mode,           \* "Normal" | "Insert" | "Search"; "Panicked" once the
                    \* process has been ended by a panic
    search_pattern, \* TextArea of the search box
    log,            \* lines of the log TextArea
    logfile,        \* lines appended to LOGFILE
    modifiedFile,   \* MODIFIEDDIR: name -> bytes
    originFile,     \* ORIGINDIR: name -> bytes
    invoked,        \* the runs of acpied-apply made for the last key: [arg, out]
    key,            \* the key event handled last ("" before the first)
    list,           \* a StatefulList of the list runs: [len, selected]
    nav             \* the calls of the list runs and of the log runs, in order

vars == <<files, modified, content, last_char, mode, search_pattern, log, logfile,
          modifiedFile, originFile, invoked, key, list, nav>>

\* ------------------------------------------------------------ StatefulList
\* a - b in usize where the build does not check overflow (wrapping).
WrappingSub(a, b) == (a - b) % (2 ^ UsizeBits)

\* A next that runs past the last item instead of wrapping.
ListNextNoWrap(len, selected) ==
    IF selected = None THEN Some(0) ELSE Some(selected[1] + 1)

\* StatefulList::next on a list of len items.
ListNext(len, selected) ==
    IF selected = None THEN Some(0)
    ELSE IF selected[1] >= WrappingSub(len, 1) THEN Some(0)
    ELSE Some(selected[1] + 1)

\* A previous that stops at the first item instead of wrapping.
ListPreviousNoWrap(len, selected) ==
    IF selected = None \/ selected[1] = 0 THEN Some(0) ELSE Some(selected[1] - 1)

\* StatefulList::previous on a list of len items.
ListPrevious(len, selected) ==
    IF selected = None THEN Some(0)
    ELSE IF selected[1] = 0 THEN Some(WrappingSub(len, 1))
    ELSE Some(selected[1] - 1)

\* Whether next and previous evaluate items.len() - 1 with no item: the
\* subtraction overflows, which panics in a build that checks overflow (a
\* debug build) and wraps in one that does not (a release build).
NextOverflows(len, selected) == selected # None /\ len = 0
PreviousOverflows(len, selected) == selected = Some(0) /\ len = 0

\* Whether a call panics: never without overflow, either way with it.
Panics(overflows) == IF overflows THEN {TRUE, FALSE} ELSE {FALSE}

\* selected().unwrap_or(0)
UnwrapOr0(selected) == IF selected = None THEN 0 ELSE selected[1]

\* ----------------------------------------------------------------- text
\* lines.join(sep) of a Vec of lines.
RECURSIVE JoinLines(_, _)
JoinLines(ls, sep) ==
    IF ls = <<>> THEN <<>>
    ELSE IF Len(ls) = 1 THEN ls[1]
    ELSE ls[1] \o sep \o JoinLines(Tail(ls), sep)

\* str::split("\n"): the pieces between newlines, a last empty piece included.
RECURSIVE SplitNL(_, _)
SplitNL(bytes, cur) ==
    IF bytes = <<>> THEN <<cur>>
    ELSE IF Head(bytes) = NL THEN <<cur>> \o SplitNL(Tail(bytes), <<>>)
    ELSE SplitNL(Tail(bytes), Append(cur, Head(bytes)))

\* str::lines(): as split, but a final newline ends the last line instead of
\* starting an empty one, and the empty string has no line.
StrLines(bytes) ==
    LET pieces == SplitNL(bytes, <<>>)
    IN IF pieces[Len(pieces)] = <<>> THEN SubSeq(pieces, 1, Len(pieces) - 1)
       ELSE pieces

\* The text AcpiEditor::write persists: the lines joined by "\n", plus "\n".
BufferText(ls) == Append(JoinLines(ls, <<NL>>), NL)

\* --------------------------------------------------------------- TextArea
\* TextArea::default()
TextAreaDefault ==
    [lines |-> << <<>> >>, cursor |-> <<0, 0>>, history |-> <<>>, search |-> None]

\* TextArea::from(lines): an empty iterator gives one empty line.
TextAreaFrom(ls) ==
    [TextAreaDefault EXCEPT !.lines = IF ls = <<>> THEN << <<>> >> ELSE ls]

Row(ta) == ta.cursor[1]
Col(ta) == ta.cursor[2]
CurLine(ta) == ta.lines[Row(ta) + 1]

\* History::push with max_items = MAX_HISTORY_SIZE: the oldest edit is evicted.
PushHistory(h, e) ==
    Append(IF Len(h) >= MAX_HISTORY_SIZE THEN Tail(h) ELSE h, e)

\* An edit of kind `kind` that leaves `ls` and `cur`: recorded for undo.
Edited(ta, kind, ls, cur) ==
    [ta EXCEPT !.lines = ls, !.cursor = cur,
               !.history = PushHistory(ta.history,
                   [kind |-> kind, lines |-> ta.lines, cursor |-> ta.cursor])]

\* TextArea::insert_char
InsertChar(ta, c) ==
    LET l == CurLine(ta)
        l2 == SubSeq(l, 1, Col(ta)) \o <<c>> \o SubSeq(l, Col(ta) + 1, Len(l))
    IN Edited(ta, "InsertChar", [ta.lines EXCEPT ![Row(ta) + 1] = l2],
              <<Row(ta), Col(ta) + 1>>)

\* TextArea::insert_newline: the line splits at the cursor.
InsertNewline(ta) ==
    LET l == CurLine(ta)
        r == Row(ta) + 1
        ls == SubSeq(ta.lines, 1, r - 1)
              \o << SubSeq(l, 1, Col(ta)), SubSeq(l, Col(ta) + 1, Len(l)) >>
              \o SubSeq(ta.lines, r + 1, Len(ta.lines))
    IN Edited(ta, "InsertNewline", ls, <<Row(ta) + 1, 0>>)

\* TextArea::delete_newline: the line joins the one before it.
DeleteNewline(ta) ==
    IF Row(ta) = 0 THEN ta
    ELSE LET r == Row(ta) + 1
             prev == ta.lines[r - 1]
             ls == SubSeq(ta.lines, 1, r - 2) \o << prev \o ta.lines[r] >>
                   \o SubSeq(ta.lines, r + 1, Len(ta.lines))
         IN Edited(ta, "DeleteNewline", ls, <<Row(ta) - 1, Len(prev)>>)

\* TextArea::delete_char (backspace)
DeleteChar(ta) ==
    IF Col(ta) = 0 THEN DeleteNewline(ta)
    ELSE LET l == CurLine(ta)
             l2 == SubSeq(l, 1, Col(ta) - 1) \o SubSeq(l, Col(ta) + 1, Len(l))
         IN Edited(ta, "DeleteChar", [ta.lines EXCEPT ![Row(ta) + 1] = l2],
                   <<Row(ta), Col(ta) - 1>>)

\* TextArea::delete_piece(col, chars): chars characters of the line from col.
DeletePiece(ta, col, chars) ==
    LET l == CurLine(ta)
    IN IF chars = 0 \/ col >= Len(l) THEN ta
       ELSE LET n == Min(chars, Len(l) - col)
                l2 == SubSeq(l, 1, col) \o SubSeq(l, col + n + 1, Len(l))
            IN Edited(ta, "Remove", [ta.lines EXCEPT ![Row(ta) + 1] = l2],
                      <<Row(ta), col>>)

\* ---- cursor moves (CursorMove::next_cursor)
FitCol(col, l) == Min(col, Len(l))

IsSpace(c) == c = " "

\* word::find_word_start_forward: the first column after col where a word starts.
WordStartsForward(l, col) ==
    {c \in (col + 1)..(Len(l) - 1) : ~IsSpace(l[c + 1]) /\ IsSpace(l[c])}

\* word::find_word_end_forward: the first column after col where a word ends.
WordEndsForward(l, col) ==
    {c \in (col + 1)..(Len(l) - 1) : ~IsSpace(l[c]) /\ IsSpace(l[c + 1])}

\* word::find_word_start_backward: the last column before col where a word starts.
WordStartsBackward(l, col) ==
    {c \in 0..(Min(col, Len(l)) - 1) :
        ~IsSpace(l[c + 1]) /\ (c = 0 \/ IsSpace(l[c]))}

SetMin(S) == CHOOSE x \in S : \A y \in S : x <= y
SetMax(S) == CHOOSE x \in S : \A y \in S : x >= y

MoveCursor(ta, m) ==
    LET row == Row(ta)
        col == Col(ta)
        n == Len(ta.lines)
        l == CurLine(ta)
        to == CASE m = "Forward" ->
                     IF col >= Len(l)
                     THEN (IF row + 1 < n THEN <<row + 1, 0>> ELSE ta.cursor)
                     ELSE <<row, col + 1>>
                [] m = "Back" ->
                     IF col = 0
                     THEN (IF row > 0 THEN <<row - 1, Len(ta.lines[row])>>
                           ELSE ta.cursor)
                     ELSE <<row, col - 1>>
                [] m = "Up" ->
                     IF row > 0 THEN <<row - 1, FitCol(col, ta.lines[row])>>
                     ELSE ta.cursor
                [] m = "Down" ->
                     IF row + 1 < n THEN <<row + 1, FitCol(col, ta.lines[row + 2])>>
                     ELSE ta.cursor
                [] m = "Head" -> <<row, 0>>
                [] m = "End" -> <<row, Len(l)>>
                [] m = "Top" -> <<0, FitCol(col, ta.lines[1])>>
                [] m = "Bottom" -> <<n - 1, FitCol(col, ta.lines[n])>>
                [] m = "WordForward" ->
                     IF WordStartsForward(l, col) # {}
                     THEN <<row, SetMin(WordStartsForward(l, col))>>
                     ELSE IF row + 1 < n THEN <<row + 1, 0>>
                     ELSE <<row, Len(l)>>
                [] m = "WordBack" ->
                     IF WordStartsBackward(l, col) # {}
                     THEN <<row, SetMax(WordStartsBackward(l, col))>>
                     ELSE IF row > 0 THEN <<row - 1, Len(ta.lines[row])>>
                     ELSE <<row, 0>>
    IN [ta EXCEPT !.cursor = to]

\* TextArea::delete_next_char: forward one position, then backspace.
DeleteNextChar(ta) ==
    LET fwd == MoveCursor(ta, "Forward")
    IN IF fwd.cursor = ta.cursor THEN ta ELSE DeleteChar(fwd)

\* TextArea::delete_line_by_end: at the end of the line it deletes the newline.
DeleteLineByEnd(ta) ==
    LET cut == DeletePiece(ta, Col(ta), Len(CurLine(ta)) + 1)
    IN IF cut # ta THEN cut ELSE DeleteNextChar(ta)

\* TextArea::delete_line_by_head: at the head of the line it deletes the newline
\* before it.
DeleteLineByHead(ta) ==
    LET cut == DeletePiece(ta, 0, Col(ta))
    IN IF cut # ta THEN cut ELSE DeleteNewline(ta)

\* TextArea::delete_next_word
DeleteNextWord(ta) ==
    LET l == CurLine(ta)
        c == Col(ta)
    IN IF WordEndsForward(l, c) # {}
       THEN DeletePiece(ta, c, SetMin(WordEndsForward(l, c)) - c)
       ELSE IF c < Len(l) THEN DeletePiece(ta, c, Len(l) - c)
       ELSE IF Row(ta) + 1 < Len(ta.lines)
       THEN DeleteNewline([ta EXCEPT !.cursor = <<Row(ta) + 1, 0>>])
       ELSE ta

\* TextArea::undo: the last edit is reverted and the cursor put back.
Undo(ta) ==
    IF ta.history = <<>> THEN ta
    ELSE LET e == ta.history[Len(ta.history)]
         IN [ta EXCEPT !.lines = e.lines, !.cursor = e.cursor,
                       !.history = SubSeq(ta.history, 1, Len(ta.history) - 1)]

\* TextArea::input of the keys the model types.
InsertKeys == {"Char_a", "Enter", "Backspace", "Esc"}

Input(ta, k) ==
    CASE k = "Char_a" -> InsertChar(ta, "a")
      [] k = "Char_(" -> InsertChar(ta, "(")
      [] k = "Enter" -> InsertNewline(ta)
      [] k = "Backspace" -> DeleteChar(ta)
      [] OTHER -> ta

\* The buffers the model keeps: the bounds on lines, columns and history.
InBounds(ta) ==
    /\ Len(ta.lines) <= MaxLines
    /\ \A i \in 1..Len(ta.lines) : Len(ta.lines[i]) <= MaxCols
    /\ Len(ta.history) <= MaxEdits

\* ------------------------------------------------------------ operation log
\* The line update_log formats: "|date time| " and the message.  The time is
\* read from the clock; the model writes it as one token.
LogLine(line) == <<"|time| ">> \o line

\* The log TextArea after insert_newline and insert_str at its end.
LogInsert(lg, line) == Append(lg, LogLine(line))

\* AcpiEditor::update_log: the line goes to the log TextArea and, when LOGFILE
\* opens (opened = TRUE), to the file.
UpdateLog(lines, opened) ==
    /\ log' = LogInsert(log, lines)
    /\ logfile' = IF opened THEN Append(logfile, LogLine(lines)) ELSE logfile

\* update_log called for each of msgs in order, LOGFILE opening every time or not.
RECURSIVE LogAll(_, _)
LogAll(lg, msgs) ==
    IF msgs = <<>> THEN lg ELSE LogAll(LogInsert(lg, Head(msgs)), Tail(msgs))

RECURSIVE LogFileAll(_, _)
LogFileAll(lf, msgs) ==
    IF msgs = <<>> THEN lf
    ELSE LogFileAll(Append(lf, LogLine(Head(msgs))), Tail(msgs))

UpdateLogAll(msgs, opened) ==
    /\ log' = LogAll(log, msgs)
    /\ logfile' = IF opened THEN LogFileAll(logfile, msgs) ELSE logfile

\* Whether LOGFILE opens when update_log is called.  acpied runs as root
\* (check_user) and creates the file when it is missing: the runs take the open
\* to succeed.
LogOpens == {TRUE}

\* The entries appended so far (the log TextArea starts as one empty line).
LogEntries == Len(log) - 1

\* ------------------------------------------------------------ dirty tracking
ReadBuf(f, pos) == SubSeq(f, pos + 1, Min(pos + BuffSize, Len(f)))

\* file_diff::diff_files on two open files at offsets p1 and p2: TRUE when the
\* rest of both reads the same; the offsets where it stopped are kept, as the
\* File handles keep them.
RECURSIVE DiffFiles(_, _, _, _)
DiffFiles(f1, p1, f2, p2) ==
    LET b1 == ReadBuf(f1, p1)
        b2 == ReadBuf(f2, p2)
        q1 == p1 + Len(b1)
        q2 == p2 + Len(b2)
    IN IF Len(b1) # Len(b2) THEN [eq |-> FALSE, p1 |-> q1, p2 |-> q2]
       ELSE IF Len(b1) = 0 THEN [eq |-> TRUE, p1 |-> q1, p2 |-> q2]
       ELSE IF b1 # b2 THEN [eq |-> FALSE, p1 |-> q1, p2 |-> q2]
       ELSE DiffFiles(f1, q1, f2, q2)

\* Vec::binary_search on the sorted items, between lo and hi.
RECURSIVE BinarySearch(_, _, _, _)
BinarySearch(items, x, lo, hi) ==
    IF lo >= hi THEN None
    ELSE LET mid == lo + ((hi - lo) \div 2)
         IN IF items[mid + 1] = x THEN Some(mid)
            ELSE IF NameLess(items[mid + 1], x) THEN BinarySearch(items, x, mid + 1, hi)
            ELSE BinarySearch(items, x, lo, mid)

RemoveAt(s, i) == SubSeq(s, 1, i) \o SubSeq(s, i + 2, Len(s))

\* The document AcpiEditor::write and select_dsl_file work on.
DslFile == files.items[UnwrapOr0(files.selected) + 1]

\* A write that pushes the name and does not sort the list.
ModifiedAfterWriteUnsorted(items, dsl_file, text, origin) ==
    LET exist == \E i \in 1..Len(items) : items[i] = dsl_file
        first == DiffFiles(text, 0, origin, 0)
        second == DiffFiles(text, first.p1, origin, first.p2)
        found == BinarySearch(items, dsl_file, 0, Len(items))
    IN IF ~first.eq /\ ~exist THEN Append(items, dsl_file)
       ELSE IF second.eq /\ exist
       THEN (IF found # None THEN RemoveAt(items, found[1]) ELSE items)
       ELSE items

\* modified.items after AcpiEditor::write has persisted text for dsl_file.
ModifiedAfterWrite(items, dsl_file, text, origin) ==
    LET exist == \E i \in 1..Len(items) : items[i] = dsl_file
        first == DiffFiles(text, 0, origin, 0)
        second == DiffFiles(text, first.p1, origin, first.p2)
        found == BinarySearch(items, dsl_file, 0, Len(items))
    IN IF ~first.eq /\ ~exist THEN SortSeq(Append(items, dsl_file), NameLess)
       ELSE IF second.eq /\ exist
       THEN (IF found # None THEN RemoveAt(items, found[1]) ELSE items)
       ELSE items

\* AcpiEditor::write of a buffer whose lines are ls.
Write(ls) ==
    /\ modifiedFile' = [modifiedFile EXCEPT ![DslFile] = BufferText(ls)]
    /\ modified' = [modified EXCEPT !.items =
           ModifiedAfterWrite(modified.items, DslFile, BufferText(ls),
                              originFile[DslFile])]

NoWrite == UNCHANGED <<modifiedFile, modified>>
NoLog == UNCHANGED <<log, logfile>>
ListIdle == UNCHANGED <<list, nav>>
\* A key whose handler does not run acpied-apply.
NoTool == invoked' = <<>> /\ ListIdle

\* ---------------------------------------------------------------- Init
\* The documents acpied-init leaves in both directories.
Baselines ==
    [n \in {"A", "B"} |->
        IF n = "A" THEN BufferText(<< <<"a">> >>)
        ELSE BufferText(<< <<" ", "a">>, <<"a">> >>)]

InitEditor ==
    /\ files = [items |-> FileNames, selected |-> None]
    /\ modified = [items |-> <<>>, selected |-> None]
    /\ content = TextAreaDefault
    /\ last_char = " "
    /\ mode = "Normal"
    /\ search_pattern = TextAreaDefault
    /\ log = << <<>> >>
    /\ logfile = <<>>
    /\ originFile = Baselines
    /\ modifiedFile = originFile
    /\ invoked = <<>>
    /\ key = ""
    /\ nav = <<>>

Init == InitEditor /\ list = [len |-> 0, selected |-> None]

\* ------------------------------------------------- document selection
\* A select_dsl_file that loads the baseline instead of the working copy.
SelectDslFileFromOrigin(selected, opened, cap) ==
    /\ files' = [files EXCEPT !.selected = selected]
    /\ content' = TextAreaFrom(StrLines(originFile[files.items[UnwrapOr0(selected) + 1]]))
    /\ UpdateLog(<<files.items[UnwrapOr0(selected) + 1], " selected">>, opened)
    /\ LogEntries < cap
    /\ UNCHANGED mode

\* AcpiEditor::select_dsl_file after files.next() or files.previous() has
\* left `selected`: the selected document's working copy is read into a new
\* TextArea and "<name> selected" is logged, while the log holds fewer than cap
\* entries.  With no document, files.items[0] panics (index out of bounds).
SelectDslFileWithin(selected, opened, cap) ==
    /\ files' = [files EXCEPT !.selected = selected]
    /\ IF UnwrapOr0(selected) >= Len(files.items)
       THEN /\ mode' = "Panicked"
            /\ UNCHANGED <<content, log, logfile>>
       ELSE /\ content' =
                   TextAreaFrom(StrLines(modifiedFile[files.items[UnwrapOr0(selected) + 1]]))
            /\ UpdateLog(<<files.items[UnwrapOr0(selected) + 1], " selected">>, opened)
            /\ LogEntries < cap
            /\ UNCHANGED mode

SelectDslFile(selected, opened) == SelectDslFileWithin(selected, opened, MaxLog)

\* Key Up in Normal mode: AcpiEditor::previous_dsl_file
PreviousDslFileWithin(cap) ==
    /\ mode = "Normal"
    /\ key' = "Up"
    /\ \E opened \in LogOpens :
           SelectDslFileWithin(ListPrevious(Len(files.items), files.selected),
                               opened, cap)
    /\ NoWrite /\ NoTool
    /\ UNCHANGED <<last_char, search_pattern, originFile>>

PreviousDslFile == PreviousDslFileWithin(MaxLog)

\* Key Down in Normal mode: AcpiEditor::next_dsl_file
NextDslFileWithin(cap) ==
    /\ mode = "Normal"
    /\ key' = "Down"
    /\ \E opened \in LogOpens :
           SelectDslFileWithin(ListNext(Len(files.items), files.selected),
                               opened, cap)
    /\ NoWrite /\ NoTool
    /\ UNCHANGED <<last_char, search_pattern, originFile>>

NextDslFile == NextDslFileWithin(MaxLog)

\* ------------------------------------------------------- cursor commands
\* A Normal-mode key k that only changes the TextArea to ta.
CursorKey(k, ta) ==
    /\ mode = "Normal"
    /\ key' = k
    /\ content' = ta
    /\ NoWrite /\ NoLog /\ NoTool
    /\ UNCHANGED <<files, last_char, mode, search_pattern, originFile>>

\* A key 0 that cuts the line up to the cursor instead of moving to its head.
ToLineHeadCuts == CursorKey("0", DeleteLineByHead(content))

NextLine == CursorKey("j", MoveCursor(content, "Down"))
PreviousLine == CursorKey("k", MoveCursor(content, "Up"))
NextChar == CursorKey("l", MoveCursor(content, "Forward"))
PreviousChar == CursorKey("h", MoveCursor(content, "Back"))
PreviousWord == CursorKey("b", MoveCursor(content, "WordBack"))
ToBottom == CursorKey("G", MoveCursor(MoveCursor(content, "Bottom"), "Head"))
ToLineHead == CursorKey("0", MoveCursor(content, "Head"))
ToLineEnd == CursorKey("$", MoveCursor(content, "End"))

\* Key g: AcpiEditor::try_to_start
TryToStart ==
    /\ mode = "Normal"
    /\ key' = "g"
    /\ IF last_char = "g"
       THEN content' = MoveCursor(content, "Top") /\ UNCHANGED last_char
       ELSE last_char' = "g" /\ UNCHANGED content
    /\ NoWrite /\ NoLog /\ NoTool
    /\ UNCHANGED <<files, mode, search_pattern, originFile>>

\* A key no arm of the Normal-mode match takes.
OtherKey ==
    /\ mode = "Normal"
    /\ key' = "other"
    /\ NoWrite /\ NoLog /\ NoTool
    /\ UNCHANGED <<files, content, last_char, mode, search_pattern, originFile>>

\* --------------------------------------------------------- mode switches
\* Key i: switch_mode(Mode::Insert)
SwitchInsert ==
    /\ mode = "Normal"
    /\ key' = "i"
    /\ mode' = "Insert"
    /\ NoWrite /\ NoLog /\ NoTool
    /\ UNCHANGED <<files, content, last_char, search_pattern, originFile>>

\* A key a that moves the cursor but stays in Normal mode.
InsertNextCharStays == CursorKey("a", MoveCursor(content, "Forward"))

\* Key a without ctrl: AcpiEditor::insert_next_char
InsertNextChar ==
    /\ mode = "Normal"
    /\ key' = "a"
    /\ mode' = "Insert"
    /\ content' = MoveCursor(content, "Forward")
    /\ NoWrite /\ NoLog /\ NoTool
    /\ UNCHANGED <<files, last_char, search_pattern, originFile>>

\* A key / that enters Search mode with the pattern box as it was left.
SwitchSearchKeepsBox ==
    /\ mode = "Normal"
    /\ key' = "/"
    /\ mode' = "Search"
    /\ NoWrite /\ NoLog /\ NoTool
    /\ UNCHANGED <<files, content, last_char, search_pattern, originFile>>

\* Key /: switch_mode(Mode::Search)
SwitchSearch ==
    /\ mode = "Normal"
    /\ key' = "/"
    /\ mode' = "Search"
    /\ search_pattern' = [InsertChar(TextAreaDefault, "/") EXCEPT !.history = <<>>]
    /\ NoWrite /\ NoLog /\ NoTool
    /\ UNCHANGED <<files, content, last_char, originFile>>

\* ------------------------------------------------------ editing commands
\* A Normal-mode key k whose handler leaves the TextArea as ta after writing
\* a buffer of lines written, with chord memory lc and mode m.
EditKey(k, ta, written, lc, m) ==
    /\ mode = "Normal"
    /\ key' = k
    /\ InBounds(ta)
    /\ content' = ta
    /\ Write(written)
    /\ last_char' = lc
    /\ mode' = m
    /\ NoLog /\ NoTool
    /\ UNCHANGED <<files, search_pattern, originFile>>

\* Key o: AcpiEditor::insert_new_line_below
InsertNewLineBelow ==
    LET ta == InsertNewline(MoveCursor(MoveCursor(content, "Head"), "Down"))
    IN EditKey("o", MoveCursor(ta, "Up"), ta.lines, last_char, "Insert")

\* Key O: AcpiEditor::insert_new_line_up
InsertNewLineUp ==
    LET ta == InsertNewline(MoveCursor(content, "Head"))
    IN EditKey("O", MoveCursor(ta, "Up"), ta.lines, last_char, "Insert")

\* Key d: AcpiEditor::try_delete_line
TryDeleteLine ==
    IF last_char = "d"
    THEN LET ta == DeleteLineByHead(DeleteLineByEnd(content))
         IN EditKey("d", ta, ta.lines, " ", mode)
    ELSE /\ mode = "Normal"
         /\ key' = "d"
         /\ last_char' = "d"
         /\ NoWrite /\ NoLog /\ NoTool
         /\ UNCHANGED <<files, content, mode, search_pattern, originFile>>

\* A key w that always moves a word forward, whatever chord memory holds.
TryDeleteWordMoves ==
    /\ mode = "Normal"
    /\ key' = "w"
    /\ content' = MoveCursor(content, "WordForward")
    /\ last_char' = "w"
    /\ NoWrite /\ NoLog /\ NoTool
    /\ UNCHANGED <<files, mode, search_pattern, originFile>>

\* Key w: AcpiEditor::try_delete_word
TryDeleteWord ==
    IF last_char = "d"
    THEN LET ta == DeleteNextWord(content)
         IN EditKey("w", ta, ta.lines, "w", mode)
    ELSE /\ mode = "Normal"
         /\ key' = "w"
         /\ content' = MoveCursor(content, "WordForward")
         /\ last_char' = "w"
         /\ NoWrite /\ NoLog /\ NoTool
         /\ UNCHANGED <<files, mode, search_pattern, originFile>>

\* A key x that deletes in the buffer and does not persist it.
DeleteCharUnwritten == CursorKey("x", DeleteNextChar(content))

\* Key x: AcpiEditor::delete_char
DeleteCharUnderCursor ==
    LET ta == DeleteNextChar(content)
    IN EditKey("x", ta, ta.lines, last_char, mode)

\* Key u: AcpiEditor::undo
UndoKey ==
    LET ta == Undo(content)
    IN EditKey("u", ta, ta.lines, last_char, mode)

\* ----------------------------------------------------------- Insert mode
\* AcpiEditor::insert(key), after Esc has switched the mode back.
InsertModeKey(k) ==
    /\ mode = "Insert"
    /\ key' = k
    /\ mode' = IF k = "Esc" THEN "Normal" ELSE mode
    /\ IF files.selected = None
       THEN UNCHANGED content /\ NoWrite
       ELSE /\ InBounds(Input(content, k))
            /\ content' = Input(content, k)
            /\ Write(Input(content, k).lines)
    /\ NoLog /\ NoTool
    /\ UNCHANGED <<files, last_char, search_pattern, originFile>>

InsertMode == \E k \in InsertKeys : InsertModeKey(k)

\* ----------------------------------------------------------- Search mode
SearchKeys == {"Char_a", "Char_(", "Esc", "Enter"}
\* The Search-mode keys of the editing runs: the box is opened and left.
EditingSearchKeys == {"Esc"}

\* The pattern AcpiEditor::search installs: the box's lines joined, the
\* leading '/' characters trimmed.
RECURSIVE TrimStartSlash(_)
TrimStartSlash(s) ==
    IF s # <<>> /\ Head(s) = "/" THEN TrimStartSlash(Tail(s)) ELSE s

PatternOf(ta) == TrimStartSlash(JoinLines(ta.lines, <<>>))

PatternChars(ta) == Len(JoinLines(ta.lines, <<>>))

\* TextArea::set_search_pattern compiles the pattern as a regular expression.
\* Of the characters the model types, 'a' is a literal and '(' opens a group
\* that nothing closes: a pattern compiles when it holds no '('.
ValidPattern(p) == \A i \in 1..Len(p) : p[i] # "("

\* A key in Search mode: Esc and Enter leave the mode (Enter through
\* AcpiEditor::search), and every key then goes to search_input.  On Enter
\* with a pattern that does not compile, the unwrap() in search panics.
SearchModeKey(k) ==
    /\ mode = "Search"
    /\ key' = k
    /\ IF k = "Enter" /\ ~ValidPattern(PatternOf(search_pattern))
       THEN /\ mode' = "Panicked"
            /\ UNCHANGED <<content, search_pattern>>
       ELSE /\ mode' = IF k \in {"Esc", "Enter"} THEN "Normal" ELSE mode
            /\ content' =
                   IF k = "Enter"
                   THEN [content EXCEPT !.search = Some(PatternOf(search_pattern))]
                   ELSE content
            /\ PatternChars(Input(search_pattern, k)) <= MaxPattern
            /\ search_pattern' = [Input(search_pattern, k) EXCEPT !.history = <<>>]
    /\ NoWrite /\ NoLog /\ NoTool
    /\ UNCHANGED <<files, last_char, originFile>>

SearchMode == \E k \in EditingSearchKeys : SearchModeKey(k)

\* ----------------------------------------------------------------- apply
\* What acpied-apply can write to a stream.
Outputs == { <<>>, <<"x", NL>>, <<NL, "x">> }

\* Command::output(): the tool ran and exited with status 0 (success) or not
\* (failure), or could not be started (error).
Outcomes ==
    {[kind |-> "success", stdout |-> o, stderr |-> <<"e">>, error |-> <<>>] :
        o \in Outputs}
    \cup {[kind |-> "failure", stdout |-> <<"o">>, stderr |-> o, error |-> <<>>] :
        o \in Outputs}
    \cup {[kind |-> "error", stdout |-> <<>>, stderr |-> <<>>,
           error |-> <<"No such file or directory (os error 2)">>]}

NonEmpty(pieces) == SelectSeq(pieces, LAMBDA piece : Len(piece) # 0)

\* Messages that skip the empty lines of standard error as well.
ApplyMessagesNonEmpty(out) ==
    CASE out.kind = "success" -> NonEmpty(SplitNL(out.stdout, <<>>))
      [] out.kind = "failure" -> NonEmpty(SplitNL(out.stderr, <<>>))
      [] OTHER -> <<out.error>>

\* The lines AcpiEditor::apply logs for an outcome, in order.
ApplyMessages(out) ==
    CASE out.kind = "success" -> NonEmpty(SplitNL(out.stdout, <<>>))
      [] out.kind = "failure" -> SplitNL(out.stderr, <<>>)
      [] OTHER -> <<out.error>>

\* modified.items.join(",")
ApplyArg(items) == JoinLines([i \in 1..Len(items) |-> <<items[i]>>], <<",">>)

\* An apply without the early return on an empty list: the tool always runs.
ApplyAlways ==
    /\ mode = "Normal"
    /\ key' = "C-a"
    /\ \E out \in Outcomes, opened \in LogOpens :
           /\ LogEntries + Len(ApplyMessages(out)) <= MaxLog
           /\ invoked' = <<[arg |-> ApplyArg(modified.items), out |-> out]>>
           /\ UpdateLogAll(ApplyMessages(out), opened)
    /\ NoWrite /\ ListIdle
    /\ UNCHANGED <<files, content, last_char, mode, search_pattern, originFile>>

\* An apply that empties the modified list when the tool exits with status 0.
ApplyClears ==
    /\ mode = "Normal"
    /\ key' = "C-a"
    /\ IF Len(modified.items) = 0
       THEN NoLog /\ invoked' = <<>> /\ UNCHANGED modified
       ELSE \E out \in Outcomes, opened \in LogOpens :
               /\ LogEntries + Len(ApplyMessages(out)) <= MaxLog
               /\ invoked' = <<[arg |-> ApplyArg(modified.items), out |-> out]>>
               /\ UpdateLogAll(ApplyMessages(out), opened)
               /\ modified' = IF out.kind = "success"
                              THEN [modified EXCEPT !.items = <<>>]
                              ELSE modified
    /\ ListIdle
    /\ UNCHANGED <<files, content, last_char, mode, search_pattern, originFile,
                   modifiedFile>>

\* Key a with ctrl: AcpiEditor::apply
Apply ==
    /\ mode = "Normal"
    /\ key' = "C-a"
    /\ IF Len(modified.items) = 0
       THEN NoLog /\ invoked' = <<>>
       ELSE \E out \in Outcomes, opened \in LogOpens :
               /\ LogEntries + Len(ApplyMessages(out)) <= MaxLog
               /\ invoked' = <<[arg |-> ApplyArg(modified.items), out |-> out]>>
               /\ UpdateLogAll(ApplyMessages(out), opened)
    /\ NoWrite /\ ListIdle
    /\ UNCHANGED <<files, content, last_char, mode, search_pattern, originFile>>

\* ------------------------------------------------------------ the key loop
\* One iteration of start(): the next key event, handled in the current mode.
Next ==
    \/ PreviousDslFile
    \/ NextDslFile
    \/ NextLine
    \/ PreviousLine
    \/ NextChar
    \/ PreviousChar
    \/ PreviousWord
    \/ TryToStart
    \/ ToBottom
    \/ ToLineHead
    \/ ToLineEnd
    \/ SwitchInsert
    \/ InsertNextChar
    \/ InsertNewLineBelow
    \/ InsertNewLineUp
    \/ TryDeleteLine
    \/ TryDeleteWord
    \/ DeleteCharUnderCursor
    \/ UndoKey
    \/ SwitchSearch
    \/ Apply
    \/ OtherKey
    \/ InsertMode
    \/ SearchMode

Spec == Init /\ [][Next]_vars

\* ------------------------------------------------------------- list runs
\* A StatefulList of 1..MaxItems items, nothing selected, and calls of next and
\* previous on it; nav records each call and the selection it left.
InitList ==
    /\ InitEditor
    /\ \E n \in 1..MaxItems : list = [len |-> n, selected |-> None]

EditorIdle ==
    UNCHANGED <<files, modified, content, last_char, search_pattern, log,
                logfile, modifiedFile, originFile, invoked, key>>

ListNextStep ==
    /\ Len(nav) < MaxNav
    /\ mode = "Normal"
    /\ \E panics \in Panics(NextOverflows(list.len, list.selected)) :
           IF panics
           THEN mode' = "Panicked" /\ UNCHANGED <<list, nav>>
           ELSE /\ list' = [list EXCEPT
                               !.selected = ListNext(list.len, list.selected)]
                /\ nav' = Append(nav, [op |-> "next", selected |-> list'.selected])
                /\ UNCHANGED mode
    /\ EditorIdle

ListPreviousStep ==
    /\ Len(nav) < MaxNav
    /\ mode = "Normal"
    /\ \E panics \in Panics(PreviousOverflows(list.len, list.selected)) :
           IF panics
           THEN mode' = "Panicked" /\ UNCHANGED <<list, nav>>
           ELSE /\ list' = [list EXCEPT
                               !.selected = ListPrevious(list.len, list.selected)]
                /\ nav' = Append(nav, [op |-> "previous", selected |-> list'.selected])
                /\ UNCHANGED mode
    /\ EditorIdle

NextList == ListNextStep \/ ListPreviousStep

SpecList == InitList /\ [][NextList]_vars

\* ------------------------------------------------------------- empty runs
\* acpied-init has left no document: files and the list of the list runs hold
\* no item.  The calls are next and previous, and the keys Up and Down.
InitEmpty ==
    /\ files = [items |-> <<>>, selected |-> None]
    /\ modified = [items |-> <<>>, selected |-> None]
    /\ content = TextAreaDefault
    /\ last_char = " "
    /\ mode = "Normal"
    /\ search_pattern = TextAreaDefault
    /\ log = << <<>> >>
    /\ logfile = <<>>
    /\ originFile = <<>>
    /\ modifiedFile = <<>>
    /\ invoked = <<>>
    /\ key = ""
    /\ nav = <<>>
    /\ list = [len |-> 0, selected |-> None]

NextEmpty ==
    \/ ListNextStep
    \/ ListPreviousStep
    \/ NextDslFile
    \/ PreviousDslFile

SpecEmpty == InitEmpty /\ [][NextEmpty]_vars

\* -------------------------------------------------------------- log runs
\* update_log called MaxAppends times with numbered messages; nav records the
\* messages in the order of the calls.
UpdateLogStep ==
    /\ Len(nav) < MaxAppends
    /\ \E opened \in LogOpens : UpdateLog(<<"message", Len(nav) + 1>>, opened)
    /\ nav' = Append(nav, <<"message", Len(nav) + 1>>)
    /\ UNCHANGED <<files, modified, content, last_char, mode, search_pattern,
                   modifiedFile, originFile, invoked, key, list>>

SpecLog == Init /\ [][UpdateLogStep]_vars

\* ----------------------------------------------------------- search runs
\* The key loop with every Search-mode key typed, in the runs where no
\* document is selected (Up and Down are not pressed): the editing keys then
\* work on the buffer AcpiEditor::new made and persist it as files.items[0].
SearchModeTyping == \E k \in SearchKeys : SearchModeKey(k)

NextSearch ==
    \/ NextLine
    \/ PreviousLine
    \/ NextChar
    \/ PreviousChar
    \/ PreviousWord
    \/ TryToStart
    \/ ToBottom
    \/ ToLineHead
    \/ ToLineEnd
    \/ SwitchInsert
    \/ InsertNextChar
    \/ InsertNewLineBelow
    \/ InsertNewLineUp
    \/ TryDeleteLine
    \/ TryDeleteWord
    \/ DeleteCharUnderCursor
    \/ UndoKey
    \/ SwitchSearch
    \/ Apply
    \/ OtherKey
    \/ InsertMode
    \/ SearchModeTyping

SpecSearch == Init /\ [][NextSearch]_vars

\* -------------------------------------------------------- switching runs
\* The key loop with up to MaxSwitches document selections, and the keys that
\* edit a document between them.
NextSwitch ==
    \/ PreviousDslFileWithin(MaxSwitches)
    \/ NextDslFileWithin(MaxSwitches)
    \/ NextLine
    \/ NextChar
    \/ SwitchInsert
    \/ InsertMode
    \/ InsertNewLineBelow
    \/ TryDeleteLine
    \/ TryDeleteWord
    \/ DeleteCharUnderCursor
    \/ UndoKey

SpecSwitch == Init /\ [][NextSwitch]_vars

\* ======================================================================
\*                               properties
\* ======================================================================
Names == {FileNames[i] : i \in 1..Len(FileNames)}

IsIn(items, n) == \E i \in 1..Len(items) : items[i] = n

\* The working copy of n in mfiles differs from its baseline, byte for byte.
Differs(mfiles, n) == mfiles[n] # originFile[n]

\* seq keeps every element of sub, in order (nothing of sub is removed).
RECURSIVE IsSubseq(_, _)
IsSubseq(sub, seq) ==
    IF sub = <<>> THEN TRUE
    ELSE IF seq = <<>> THEN FALSE
    ELSE IF Head(sub) = Head(seq) THEN IsSubseq(Tail(sub), Tail(seq))
    ELSE IsSubseq(sub, Tail(seq))

\* The buffer new keeps every character and line break of the buffer old.
NoDeletion(old, new) == IsSubseq(JoinLines(old, <<NL>>), JoinLines(new, <<NL>>))

\* ---------------------------------------------------------------- C1
\* C1 (as claimed): at the end of every input-handling step a document's name
\* is in ModifiedSet if and only if its working copy differs from its baseline.
C1_DirtyInvariant ==
    \A n \in Names : IsIn(modified.items, n) <=> Differs(modifiedFile, n)

\* ---------------------------------------------------------------- C2
\* The edit the next undo reverts.
LastEdit == content.history[Len(content.history)]

\* A step that undoes an insertion into the selected document.
UndoOfInsert ==
    /\ mode = "Normal" /\ key' = "u"
    /\ files.selected # None
    /\ content.history # <<>>
    /\ LastEdit.kind \in {"InsertChar", "InsertNewline"}

\* A step that inserts a character into a selected document that equals its
\* baseline while ModifiedSet is empty.
InsertIntoClean ==
    /\ mode = "Insert" /\ key' \in {"Char_a", "Enter"}
    /\ files.selected # None
    /\ modified.items = <<>>
    /\ ~Differs(modifiedFile, DslFile)

\* C2 (as claimed): an insert into a clean document puts exactly its name in
\* ModifiedSet; an undo of an insert restores and persists the content before
\* the insert, and leaves the name in ModifiedSet exactly when that content
\* differs from the baseline.
C2_UndoRoundTrip ==
    [][ /\ InsertIntoClean => modified'.items = <<DslFile>>
        /\ UndoOfInsert =>
              /\ content'.lines = LastEdit.lines
              /\ modifiedFile'[DslFile] = BufferText(LastEdit.lines)
              /\ IsIn(modified'.items, DslFile) <=> Differs(modifiedFile', DslFile)
      ]_vars

\* ---------------------------------------------------------------- C3
\* The first d of the chord: chord memory is neutral.
FirstD == mode = "Normal" /\ last_char = " " /\ key' = "d"

\* The d that follows it at once.
SecondD == mode = "Normal" /\ key = "d" /\ last_char = "d" /\ key' = "d"

\* C3 (as claimed): the first d changes nothing but chord memory; the second d
\* empties the text of the cursor's line, keeps the number of lines and every
\* other line, and resets chord memory.
C3_DeleteLineChord ==
    [][ /\ FirstD =>
              /\ last_char' = "d"
              /\ UNCHANGED <<content, modifiedFile, modified>>
        /\ SecondD =>
              /\ content'.lines = [content.lines EXCEPT ![Row(content) + 1] = <<>>]
              /\ last_char' = " "
      ]_vars

\* ---------------------------------------------------------------- C4
\* A key pressed right after the d that set chord memory.
KeyAfterD == mode = "Normal" /\ key = "d" /\ last_char = "d"

\* C4 (as claimed): after d, any key other than d and w removes nothing from
\* the buffer.
C4_NoDeletionAfterD ==
    [][ KeyAfterD /\ key' \notin {"d", "w"}
            => NoDeletion(content.lines, content'.lines) ]_vars

\* C4 (amended): after d, any key other than d, w, x, u, Up and Down removes
\* nothing from the buffer.
C4_NoDeletionAfterD_Amended ==
    [][ KeyAfterD /\ key' \notin {"d", "w", "x", "u", "Up", "Down"}
            => NoDeletion(content.lines, content'.lines) ]_vars

\* d is pending and o has opened a line: a key after d that changed the buffer.
C4_Witness ==
    /\ key = "o" /\ last_char = "d" /\ mode = "Insert"
    /\ Len(content.lines) = 2

\* ---------------------------------------------------------------- C5
\* The calls made so far are n calls of next.
OnlyNext(n) == Len(nav) = n /\ \A i \in 1..n : nav[i].op = "next"

\* C5 (as claimed): N calls of next from no selection leave index 0 selected.
C5_AdvanceNTimes == OnlyNext(list.len) => list.selected = Some(0)

\* C5 (amended): N calls of next from no selection leave index N-1 selected,
\* and the call after them wraps to index 0.
C5_AdvanceNTimes_Amended ==
    /\ OnlyNext(list.len) => list.selected = Some(list.len - 1)
    /\ OnlyNext(list.len + 1) => list.selected = Some(0)

C5_Witness == list.len = 3 /\ OnlyNext(4) /\ list.selected = Some(0)

\* ---------------------------------------------------------------- C6
\* The selection before call i.
Before(i) == IF i = 1 THEN None ELSE nav[i - 1].selected

\* C6: previous goes from 0 to N-1 and from i > 0 to i-1; next goes from N-1 to
\* 0 and from i < N-1 to i+1; the index stays in 0..N-1; next then previous, or
\* previous then next, from a selected index returns to it.
C6_WrapEnds ==
    \A i \in 1..Len(nav) :
        /\ nav[i].selected # None
        /\ nav[i].selected[1] \in 0..(list.len - 1)
        /\ (i > 1 /\ nav[i].op = "previous") =>
              nav[i].selected[1] =
                  IF Before(i)[1] = 0 THEN list.len - 1 ELSE Before(i)[1] - 1
        /\ (i > 1 /\ nav[i].op = "next") =>
              nav[i].selected[1] =
                  IF Before(i)[1] = list.len - 1 THEN 0 ELSE Before(i)[1] + 1
        /\ (i > 2 /\ nav[i].op # nav[i - 1].op) =>
              nav[i].selected = nav[i - 2].selected

\* previous has wrapped from index 0 to N-1 and next has come back.
C6_Witness ==
    /\ list.len = 3 /\ Len(nav) = 3
    /\ nav[1].selected = Some(0)
    /\ nav[2].op = "previous" /\ nav[2].selected = Some(2)
    /\ nav[3].op = "next" /\ nav[3].selected = Some(0)

\* ---------------------------------------------------------------- C7
\* The entries of the log TextArea: its lines after the first, empty one.
MemoryLog == Tail(log)

\* The last n of the messages appended, as logged.
LastLogged(n) ==
    [i \in 1..n |-> LogLine(nav[Len(nav) - n + i])]

\* C7 (as claimed): the in-memory log holds the most recent entries, at most
\* MAX_HISTORY_SIZE of them, in order, and the file holds every entry.
C7_LogBound ==
    /\ Len(MemoryLog) <= MAX_HISTORY_SIZE
    /\ MemoryLog = LastLogged(Min(Len(nav), MAX_HISTORY_SIZE))
    /\ logfile = LastLogged(Len(nav))

\* ---------------------------------------------------------------- C8
\* C8: apply with an empty ModifiedSet runs no tool, logs nothing, and leaves
\* mode, buffer, chord memory and ModifiedSet as they were.
C8_ApplyEmptyNoOp ==
    [][ (mode = "Normal" /\ key' = "C-a" /\ modified.items = <<>>) =>
            /\ invoked' = <<>>
            /\ UNCHANGED <<log, logfile, mode, content, last_char, modified,
                           modifiedFile, files, search_pattern>>
      ]_vars

\* apply was asked for with nothing modified, after a document was selected.
C8_Witness ==
    /\ key = "C-a" /\ modified.items = <<>> /\ invoked = <<>>
    /\ files.selected # None

RECURSIVE CommaSeparated(_)
CommaSeparated(items) ==
    IF Len(items) = 1 THEN <<items[1]>>
    ELSE CommaSeparated(SubSeq(items, 1, Len(items) - 1))
             \o <<",", items[Len(items)]>>

\* The pieces of bytes between newlines: Len(bytes without newlines) + 1 pieces.
Pieces(bytes) ==
    LET cuts == <<0>> \o SelectSeq([i \in 1..Len(bytes) |-> i],
                                   LAMBDA i : bytes[i] = NL)
                     \o <<Len(bytes) + 1>>
    IN [p \in 1..(Len(cuts) - 1) |-> SubSeq(bytes, cuts[p] + 1, cuts[p + 1] - 1)]

\* The log after the messages msgs have been appended to lg, in order.
Logged(lg, msgs) == lg \o [i \in 1..Len(msgs) |-> <<"|time| ">> \o msgs[i]]

\* A step in which apply runs the tool.
ApplyRuns == mode = "Normal" /\ key' = "C-a" /\ modified.items # <<>>

\* The tool is run once, with the names of ModifiedSet separated by commas.
RunOnce ==
    /\ Len(invoked') = 1
    /\ invoked'[1].arg = CommaSeparated(modified.items)

\* One entry per non-empty line of standard output on status 0.
SuccessLogged ==
    invoked'[1].out.kind = "success" =>
        /\ log' = Logged(log, SelectSeq(Pieces(invoked'[1].out.stdout),
                                        LAMBDA p : p # <<>>))
        /\ logfile' = Logged(logfile, SelectSeq(Pieces(invoked'[1].out.stdout),
                                                LAMBDA p : p # <<>>))

ModeAfter(m, k) ==
    CASE m = "Normal" -> IF k \in {"i", "a", "o", "O"} THEN "Insert"
                         ELSE IF k = "/" THEN "Search"
                         ELSE "Normal"
      [] m = "Insert" -> IF k = "Esc" THEN "Normal" ELSE "Insert"
      [] m = "Search" -> IF k \in {"Esc", "Enter"} THEN "Normal" ELSE "Search"

\* C11: the mode starts as Normal; Normal goes to Insert on i, a, o, O and to
\* Search on '/', Insert goes to Normal on Esc, Search goes to Normal on Esc
\* and Enter, and every other key leaves the mode as it is (in every step the
\* process survives).
C11_ModeMachine ==
    /\ mode = "Normal"
    /\ [][ mode' # "Panicked" => mode' = ModeAfter(mode, key') ]_vars

\* Enter has installed the pattern "a" and Search mode is left for Normal.
C11_Witness ==
    /\ key = "Enter" /\ mode = "Normal"
    /\ content.search = Some(<<"a">>)

\* ---------------------------------------------------------------- C12
\* The first g of the chord: chord memory is neutral.
FirstG == mode = "Normal" /\ last_char = " " /\ key' = "g"

\* The g that follows a g at once.
SecondG == mode = "Normal" /\ key = "g" /\ last_char = "g" /\ key' = "g"

\* C12 (as claimed): the first g moves nothing and sets chord memory to g; the
\* second g moves the cursor to the top and sets chord memory back to neutral.
C12_GGChord ==
    [][ /\ FirstG => (content' = content /\ last_char' = "g")
        /\ SecondG => (content' = MoveCursor(content, "Top") /\ last_char' = " ")
      ]_vars

\* ---------------------------------------------------------------- C13
\* C13 (as claimed): a g whose preceding key was not g performs no jump: it
\* leaves the cursor where it is.
C13_InterruptedG ==
    [][ (mode = "Normal" /\ key' = "g" /\ key # "g") => content' = content ]_vars

\* ---------------------------------------------------------------- C14
\* Enter is pressed in Search mode on a pattern that does not compile.
EnterOnInvalid ==
    /\ mode = "Search" /\ key' = "Enter"
    /\ ~ValidPattern(PatternOf(search_pattern))

\* C14 (as claimed): Enter on a pattern that does not compile does not end
\* the process, keeps the mode Search and leaves the installed pattern, the
\* buffer and ModifiedSet as they were.
C14_InvalidPatternKept ==
    [][ EnterOnInvalid =>
            /\ mode' = "Search"
            /\ UNCHANGED <<content, modified, modifiedFile>>
      ]_vars

\* ---------------------------------------------------------------- C15
\* The text of a buffer from the cursor on, and up to the cursor.
TextFrom(ta) ==
    JoinLines(<<SubSeq(CurLine(ta), Col(ta) + 1, Len(CurLine(ta)))>>
              \o SubSeq(ta.lines, Row(ta) + 2, Len(ta.lines)), <<NL>>)

TextUpTo(ta) ==
    JoinLines(SubSeq(ta.lines, 1, Row(ta))
              \o <<SubSeq(CurLine(ta), 1, Col(ta))>>, <<NL>>)

\* s ends with t.
IsSuffix(t, s) ==
    Len(t) <= Len(s) /\ SubSeq(s, Len(s) - Len(t) + 1, Len(s)) = t

Selected == files'.items[UnwrapOr0(files'.selected) + 1]

\* "<name> selected", as logged.
SelectionOf(n) == LogLine(<<n, " selected">>)

\* C17: a selection step changes no working copy and no ModifiedSet
\* membership, leaves a document whose working copy is the buffer it shows,
\* and loads the working copy of the document it selects; and between
\* selections only the selected document's working copy is written.  So a
\* document selected again shows the content it was left with.
C17_SwitchKeepsContent ==
    [][ /\ (mode = "Normal" /\ key' \in {"Up", "Down"}) =>
              /\ UNCHANGED <<modifiedFile, modified>>
              /\ files.selected # None =>
                     modifiedFile[DslFile] = BufferText(content.lines)
              /\ BufferText(content'.lines) = modifiedFile[Selected]
        /\ files.selected # None =>
              \A n \in Names \ {DslFile} : modifiedFile'[n] = modifiedFile[n]
      ]_vars

\* A was selected and edited, B was selected, and A is selected again: the
\* buffer shows A's edited content.
C17_Witness ==
    /\ log = << <<>>, SelectionOf("A"), SelectionOf("B"), SelectionOf("A") >>
    /\ files.selected = Some(0)
    /\ modifiedFile["A"] # originFile["A"]
    /\ BufferText(content.lines) = modifiedFile["A"]

\* ---------------------------------------------------------------- C18
\* C18 (as claimed): a step that leaves the selected document and the content
\* of its buffer as they were leaves ModifiedSet as it was.
C18_UnchangedContentKeepsModified ==
    [][ (files.selected # None /\ files' = files
            /\ content'.lines = content.lines)
            => modified' = modified ]_vars

\* ---------------------------------------------------------------- C19
\* C19: a key handled in Search mode, Enter apart, leaves the buffer (its
\* installed search pattern included), the working copies and ModifiedSet as
\* they were; entering Search mode leaves just the '/' marker in the pattern
\* box.
C19_SearchKeepsDocument ==
    [][ /\ (mode = "Search" /\ key' # "Enter") =>
              UNCHANGED <<content, modifiedFile, modified, files>>
        /\ (mode = "Normal" /\ key' = "/") =>
              /\ search_pattern'.lines = << <<"/">> >>
              /\ search_pattern'.cursor = <<0, 1>>
      ]_vars

\* Search mode was entered again after the pattern "a" had been installed,
\* with a document in ModifiedSet, and Esc has left it with "(" typed.
C19_Witness ==
    /\ key = "Esc" /\ mode = "Normal"
    /\ search_pattern.lines = << <<"/", "(">> >>
    /\ content.search = Some(<<"a">>)
    /\ modified.items # <<>>

\* ---------------------------------------------------------------- C20
\* C20 (as claimed): with no item, next, previous, Up and Down end no process
\* and select nothing.
C20_EmptyListSafe ==
    /\ mode # "Panicked"
    /\ list.selected = None
    /\ files.selected = None

\* ---------------------------------------------------------------- C21
\* The lines ls with one empty line inserted after line number row (0-based).
WithLineAfter(ls, row) ==
    SubSeq(ls, 1, row + 1) \o << <<>> >> \o SubSeq(ls, row + 2, Len(ls))

\* C21 (as claimed): o inserts one empty line right after the cursor's line,
\* whichever line that is, puts the cursor on the new line, enters Insert mode
\* and persists the buffer.
C21_OpenLineBelow ==
    [][ (mode = "Normal" /\ key' = "o") =>
            /\ content'.lines = WithLineAfter(content.lines, Row(content))
            /\ content'.cursor = <<Row(content) + 1, 0>>
            /\ mode' = "Insert"
            /\ modifiedFile'[DslFile] = BufferText(content'.lines)
      ]_vars

\* ---------------------------------------------------------------- C22
\* C22: ModifiedSet is in ascending name order, holds no name twice, and
\* holds only names of documents of the list.
C22_ModifiedWellFormed ==
    /\ \A i \in 1..(Len(modified.items) - 1) :
           NameLess(modified.items[i], modified.items[i + 1])
    /\ \A i, j \in 1..Len(modified.items) :
           modified.items[i] = modified.items[j] => i = j
    /\ \A i \in 1..Len(modified.items) :
           \E d \in 1..Len(files.items) : files.items[d] = modified.items[i]

\* both documents are in ModifiedSet, A being selected after B was.
C22_Witness ==
    /\ modified.items = <<"A", "B">>
    /\ files.selected = Some(0)
    /\ log = << <<>>, SelectionOf("A"), SelectionOf("B"), SelectionOf("A") >>

\* ---------------------------------------------------------------- C23
\* C23 (as claimed): while no document is selected, no key changes a working
\* copy or ModifiedSet.
C23_NoSelectionNoWrite ==
    [][ files.selected = None => UNCHANGED <<modifiedFile, modified>> ]_vars

====
